---- MODULE Spec2Model ----
(***************************************************************************)
(* A model of one file pane of filer: the FileSystemBackend, the           *)
(* FileListModel (the sorted view), the FileSystemWatcher and the FilePane *)
(* that wires them to the Qt event loop.  Every handler of the loop is one *)
(* action; the filesystem is the environment.                              *)
(***************************************************************************)
EXTENDS Integers, Sequences, FiniteSets, TLC

VARIABLES
    disk,               \* filesystem: directory -> children in enumeration order
    access,             \* filesystem: directory -> "ok" | "denied" | "gone"
    current_path,       \* FileSystemBackend.current_path
    entries,            \* FileListModel.entries
    loading_generator,  \* FileListModel._loading_generator
    loading_timer,      \* FileListModel._loading_timer is not None
    observer,           \* FileSystemWatcher.observer: "None", or its thread "alive" or "dead"
    watched_path,       \* FileSystemWatcher.watched_path
    running_observers,  \* Observer threads started and not stopped
    signal_queue,       \* watcher signals queued for the loop, oldest first
    validation_timer,   \* FilePane.validation_timer: active flag and ms left
    status_label,       \* FilePane.status_label: <<dir_count, file_count>>
    sort_key,           \* the (column, order) of the last sort call
    emitted,            \* notifications emitted by the last handler, in order
    last,               \* the last handler run, its arguments and its result
    since_event,        \* ms elapsed since the last handled watcher event
    fs_ops,             \* filesystem changes made so far
    user_ops            \* user requests (refresh, navigation, sort) so far

fsVars      == <<disk, access>>
modelVars   == <<entries, loading_generator, loading_timer>>
watcherVars == <<observer, watched_path, running_observers>>
vars == <<disk, access, current_path, entries, loading_generator, loading_timer,
          observer, watched_path, running_observers, signal_queue, validation_timer,
          status_label,
          sort_key, emitted, last, since_event, fs_ops, user_ops>>

----------------------------------------------------------------------------
(* Bounds of the model *)

\* most children a directory holds
MaxFiles == 2
\* most filesystem changes in one behaviour
MaxFsOps == 2
\* most user requests in one behaviour
MaxUserOps == 1
\* the time step of the clock, in ms
TickMs == 1000

----------------------------------------------------------------------------
(* The universe of paths *)

\* a path is the sequence of its components: <<"d", "a.txt">> is /d/a.txt
Dirs == {<<"d">>, <<"o">>}
\* the directory the pane starts in
InitialPath == <<"d">>
\* Optional[Path] and Optional[Observer] hold None as these values
NonePath == <<"None">>
\* Path('') is Path('.')
DotPath == <<".">>
Names == {"sub", "A.txt", "a.txt", "b.md"}
\* the names that are created as directories
DirNames == {"sub"}

Path(d, n) == Append(d, n)
\* Path.parent (the root and Path('.') are their own parents) and Path.name
path_parent(p) == IF p = DotPath THEN DotPath ELSE SubSeq(p, 1, Len(p) - 1)
path_name(p) == IF p = <<>> THEN "" ELSE p[Len(p)]
AllPaths == {Path(d, n) : d \in Dirs, n \in Names}

\* str.lower() on the names of the universe
lower(s) == IF s = "A.txt" THEN "a.txt" ELSE s

\* Path.suffix: the last dot and what follows it, "" when there is none
suffix(n) ==
    CASE n = "A.txt" -> ".txt"
      [] n = "a.txt" -> ".txt"
      [] n = "b.md"  -> ".md"
      [] OTHER       -> ""

\* suffix.upper()[1:]
upper_tail(sfx) ==
    CASE sfx = ".txt" -> "TXT"
      [] sfx = ".md"  -> "MD"
      [] OTHER        -> ""

\* Python compares str by code point: upper case before lower case
CodePointOrder == <<"Directory", "File", "MD", "TXT", "a.txt", "b.md", "sub">>
StrRank(s) == CHOOSE i \in 1..Len(CodePointOrder) : CodePointOrder[i] = s

\* os.stat_result, reduced to the fields the program reads
Stat(sz, mt) == [st_size |-> sz, st_mtime |-> mt]
\* the stats a child on disk can have
Stats == {Stat(1, 2), Stat(2, 1)}
DummyStat == Stat(0, 0)
\* stands for a child whose os.stat raises an OSError that pathlib does not
\* ignore (EACCES, EIO): Path.is_dir() raises it, FileEntry.stat catches it
StatError == Stat(-1, -1)

Child(n, st) == [name |-> n, is_dir |-> n \in DirNames, st |-> st]

----------------------------------------------------------------------------
(* Sequence helpers *)

Range(s) == {s[i] : i \in 1..Len(s)}
\* list.insert(pos, x) and list.pop(i), with Python's 0-based positions
InsertAt(s, pos, x) == SubSeq(s, 1, pos) \o <<x>> \o SubSeq(s, pos + 1, Len(s))
PopAt(s, i) == SubSeq(s, 1, i) \o SubSeq(s, i + 2, Len(s))
Min(a, b) == IF a < b THEN a ELSE b

Note(kind, index) == [kind |-> kind, index |-> index]

----------------------------------------------------------------------------
(* pathlib against the modelled filesystem *)

ChildrenOf(d) == IF d \notin Dirs \/ access[d] = "gone" THEN <<>> ELSE disk[d]

path_exists(p) == \E i \in 1..Len(ChildrenOf(path_parent(p))) : ChildrenOf(path_parent(p))[i].name = path_name(p)

path_is_dir(p) ==
    \E i \in 1..Len(ChildrenOf(path_parent(p))) :
        ChildrenOf(path_parent(p))[i].name = path_name(p) /\ ChildrenOf(path_parent(p))[i].is_dir

\* Path.stat(): <<TRUE, stat>>, or <<FALSE, _>> for OSError
path_stat(p) ==
    IF path_exists(p)
    THEN LET i == CHOOSE j \in 1..Len(ChildrenOf(path_parent(p))) : ChildrenOf(path_parent(p))[j].name = path_name(p)
         IN IF ChildrenOf(path_parent(p))[i].st = StatError
            THEN <<FALSE, DummyStat>>
            ELSE <<TRUE, ChildrenOf(path_parent(p))[i].st>>
    ELSE <<FALSE, DummyStat>>

----------------------------------------------------------------------------
(* FileEntry *)

\* FileEntry.__init__; _stat_cache is <<>> for None, <<stat>> once loaded
FileEntry(p) ==
    [path |-> p, name |-> path_name(p), is_dir |-> path_is_dir(p), stat_cache |-> <<>>]

\* FileEntry.stat: the entry after the lazy load
stat(e) ==
    IF e.stat_cache = <<>>
    THEN [e EXCEPT !.stat_cache = <<IF path_stat(e.path)[1] THEN path_stat(e.path)[2] ELSE DummyStat>>]
    ELSE e

size(e) == IF e.is_dir THEN 0 ELSE stat(e).stat_cache[1].st_size

\* datetime.fromtimestamp keeps the order of the timestamps
modified_time(e) == stat(e).stat_cache[1].st_mtime

type_str(e) ==
    IF e.is_dir THEN "Directory"
    ELSE IF suffix(e.name) # "" THEN upper_tail(suffix(e.name)) ELSE "File"

----------------------------------------------------------------------------
(* FileSystemBackend *)

\* list.sort(key=..., reverse=...) compares the key tuples (not is_dir, value)
KeyLt(k1, k2) == k1[1] < k2[1] \/ (k1[1] = k2[1] /\ k1[2] < k2[2])

COL_NAME == 0
COL_SIZE == 1
COL_TYPE == 2
COL_MODIFIED == 3
Columns == {COL_NAME, COL_SIZE, COL_TYPE, COL_MODIFIED}

\* the lambdas of FileListModel.sort; False < True puts directories first
sort_lambda(e, column) ==
    <<IF e.is_dir THEN 0 ELSE 1,
      CASE column = COL_NAME     -> StrRank(lower(e.name))
        [] column = COL_SIZE     -> size(e)
        [] column = COL_TYPE     -> StrRank(type_str(e))
        [] column = COL_MODIFIED -> modified_time(e)>>

\* list.sort: stable, and stable under reverse=True as well (equal keys keep
\* their original order), written as a stable insertion sort
RECURSIVE list_sort(_, _, _)
list_sort(s, column, reverse) ==
    IF s = <<>> THEN <<>>
    ELSE LET sorted == list_sort(SubSeq(s, 1, Len(s) - 1), column, reverse)
             x      == s[Len(s)]
             before == {i \in 1..Len(sorted) :
                          IF reverse
                          THEN ~KeyLt(sort_lambda(sorted[i], column), sort_lambda(x, column))
                          ELSE ~KeyLt(sort_lambda(x, column), sort_lambda(sorted[i], column))}
         IN InsertAt(sorted, Cardinality(before), x)

\* FileEntry(item) does not raise for this child of the directory
constructible(child) == child.st # StatError

\* the children of d that list_directory appends: the inner try skips those
\* whose FileEntry raises OSError
appended(d) ==
    LET kept == SelectSeq(disk[d], constructible)
    IN [i \in 1..Len(kept) |-> FileEntry(Path(d, kept[i].name))]

\* list_directory whose inner try is missing: the error of a child reaches
\* the outer except
list_directory_fails_on_child(d) ==
    IF access[d] # "ok" \/ \E i \in 1..Len(disk[d]) : ~constructible(disk[d][i])
    THEN [ok |-> FALSE, entries |-> <<>>]
    ELSE [ok |-> TRUE, entries |-> list_sort(appended(d), COL_NAME, FALSE)]

\* FileSystemBackend.list_directory: [ok |-> FALSE] stands for PermissionError
list_directory(d) ==
    IF access[d] # "ok"
    THEN [ok |-> FALSE, entries |-> <<>>]
    ELSE [ok |-> TRUE, entries |-> list_sort(appended(d), COL_NAME, FALSE)]

----------------------------------------------------------------------------
(* FileListModel: the operations on the view, as functions of the list *)

\* bisect.bisect_left(a, x, lo, hi) over the wrapped keys; 0-based positions
RECURSIVE bisect_left(_, _, _, _)
bisect_left(a, x, lo, hi) ==
    IF lo < hi
    THEN LET mid == (lo + hi) \div 2
         IN IF KeyLt(a[mid + 1], x)
            THEN bisect_left(a, x, mid + 1, hi)
            ELSE bisect_left(a, x, lo, mid)
    ELSE lo

\* the key of _find_insert_position: always (not is_dir, name.lower())
entry_key(e) == <<IF e.is_dir THEN 0 ELSE 1, StrRank(lower(e.name))>>

\* _find_insert_position answering the end of the list (an append)
find_insert_position_appends(view, entry) == Len(view)

find_insert_position(view, entry) ==
    bisect_left([i \in 1..Len(view) |-> entry_key(view[i])], entry_key(entry), 0, Len(view))

\* _insert_sorted_entries announcing every row at the end of the list
RECURSIVE insert_sorted_entries_announces_end(_, _)
insert_sorted_entries_announces_end(view, new_entries) ==
    IF new_entries = <<>> THEN [entries |-> view, notes |-> <<>>]
    ELSE LET pos  == find_insert_position(view, new_entries[1])
             rest == insert_sorted_entries_announces_end(InsertAt(view, pos, new_entries[1]),
                                                         Tail(new_entries))
         IN [entries |-> rest.entries, notes |-> <<Note("insert", Len(view))>> \o rest.notes]

\* _insert_sorted_entries: [entries, notes] after inserting each new entry
RECURSIVE insert_sorted_entries(_, _)
insert_sorted_entries(view, new_entries) ==
    IF new_entries = <<>> THEN [entries |-> view, notes |-> <<>>]
    ELSE LET pos  == find_insert_position(view, new_entries[1])
             rest == insert_sorted_entries(InsertAt(view, pos, new_entries[1]), Tail(new_entries))
         IN [entries |-> rest.entries, notes |-> <<Note("insert", pos)>> \o rest.notes]

\* the 0-based index of the first entry with the path, -1 when there is none
index_of(view, p) ==
    IF \E i \in 1..Len(view) : view[i].path = p
    THEN (CHOOSE i \in 1..Len(view) : view[i].path = p /\ \A j \in 1..(i - 1) : view[j].path # p) - 1
    ELSE -1

Outcome(view, result, notes) == [entries |-> view, result |-> result, notes |-> notes]

\* add_entry without its check for an entry of the same path
add_entry_unchecked(view, p) ==
    LET ins == insert_sorted_entries(view, <<FileEntry(p)>>)
    IN Outcome(ins.entries, TRUE, ins.notes)

add_entry(view, p) ==
    IF \E i \in 1..Len(view) : view[i].path = p
    THEN Outcome(view, FALSE, <<>>)
    ELSE LET ins == insert_sorted_entries(view, <<FileEntry(p)>>)
         IN Outcome(ins.entries, TRUE, ins.notes)

\* remove_entry popping the last row when the path is not found
remove_entry_last(view, p) ==
    LET i == index_of(view, p)
    IN IF i >= 0
       THEN Outcome(PopAt(view, i), TRUE, <<Note("remove", i)>>)
       ELSE IF view # <<>>
       THEN Outcome(PopAt(view, Len(view) - 1), TRUE, <<Note("remove", Len(view) - 1)>>)
       ELSE Outcome(view, FALSE, <<>>)

remove_entry(view, p) ==
    LET i == index_of(view, p)
    IN IF i >= 0
       THEN Outcome(PopAt(view, i), TRUE, <<Note("remove", i)>>)
       ELSE Outcome(view, FALSE, <<>>)

\* update_entry putting the entry back at the position of its name
update_entry_repositions(view, p) ==
    LET i == index_of(view, p)
    IN IF i >= 0
       THEN LET ins == insert_sorted_entries(PopAt(view, i),
                                             <<[view[i + 1] EXCEPT !.stat_cache = <<>>]>>)
            IN Outcome(ins.entries, TRUE, <<Note("update", i)>>)
       ELSE Outcome(view, FALSE, <<>>)

update_entry(view, p) ==
    LET i == index_of(view, p)
    IN IF i >= 0
       THEN Outcome([view EXCEPT ![i + 1].stat_cache = <<>>], TRUE, <<Note("update", i)>>)
       ELSE Outcome(view, FALSE, <<>>)

\* move_entry giving up when the source is not in the view
move_entry_gives_up(view, from_path, to_path) ==
    LET i == index_of(view, from_path)
    IN IF i >= 0
       THEN LET ins == insert_sorted_entries(PopAt(view, i), <<FileEntry(to_path)>>)
            IN Outcome(ins.entries, TRUE, <<Note("remove", i)>> \o ins.notes)
       ELSE Outcome(view, FALSE, <<>>)

move_entry(view, from_path, to_path) ==
    IF path_parent(from_path) = path_parent(to_path)
    THEN LET i == index_of(view, from_path)
         IN IF i >= 0
            THEN LET ins == insert_sorted_entries(PopAt(view, i), <<FileEntry(to_path)>>)
                 IN Outcome(ins.entries, TRUE, <<Note("remove", i)>> \o ins.notes)
            ELSE add_entry(view, to_path)
    ELSE LET removed == remove_entry(view, from_path)
             added   == add_entry(removed.entries, to_path)
         IN Outcome(added.entries, removed.result \/ added.result,
                    removed.notes \o added.notes)

\* FileListModel.sort: the keys are computed first, which loads the stats
sort(view, column, reverse) ==
    LET keyed == [i \in 1..Len(view) |->
                    IF column = COL_MODIFIED \/ (column = COL_SIZE /\ ~view[i].is_dir)
                    THEN stat(view[i]) ELSE view[i]]
    IN Outcome(IF column \in Columns THEN list_sort(keyed, column, reverse) ELSE view,
               TRUE, <<Note("reset", -1)>>)

----------------------------------------------------------------------------
(* Streaming enumeration and the loading timer *)

\* the entries FileListModel._load_next_batch pulls per timer tick: a bound of
\* the model, scaled with MaxFiles from the 50 of the source so that a load
\* takes more than one tick
batch_size == 2

NoGenerator == [live |-> FALSE, started |-> FALSE, dir |-> <<>>, names |-> <<>>]

\* FileSystemBackend.list_directory_streaming: a lazy, single-pass sequence of
\* the children in the enumeration order of the directory (not sorted); the
\* directory is read at the first pull
list_directory_streaming(d) == [live |-> TRUE, started |-> FALSE, dir |-> d, names |-> <<>>]

\* the names a generator still has to yield, reading the directory when the
\* generator has not been started yet
Pending(gen) ==
    IF gen.started THEN gen.names
    ELSE [i \in 1..Len(disk[gen.dir]) |-> disk[gen.dir][i].name]

\* FilePane.update_status over a list of entries
update_status(view) ==
    <<Cardinality({i \in 1..Len(view) : view[i].is_dir}),
      Len(view) - Cardinality({i \in 1..Len(view) : view[i].is_dir})>>

\* _load_next_batch that inserts the last entries without _finish_loading
load_next_batch_never_finishes(view, gen) ==
    IF ~gen.live
    THEN [entries |-> view, generator |-> gen, timer |-> loading_timer, notes |-> <<>>, done |-> FALSE]
    ELSE IF access[gen.dir] # "ok"
    THEN [entries |-> view, generator |-> NoGenerator, timer |-> FALSE,
          notes |-> <<Note("loading_complete", -1)>>, done |-> TRUE]
    ELSE LET names == Pending(gen)
             k     == Min(batch_size, Len(names))
             new   == [i \in 1..k |-> FileEntry(Path(gen.dir, names[i]))]
             ins   == insert_sorted_entries(view, new)
         IN [entries |-> ins.entries,
             generator |-> [gen EXCEPT !.started = TRUE,
                                       !.names = SubSeq(names, k + 1, Len(names))],
             timer |-> loading_timer, notes |-> ins.notes, done |-> FALSE]

\* _load_next_batch whose except branch empties the view, as the except
\* branch of refresh_streaming does
load_next_batch_drops_view(view, gen) ==
    IF ~gen.live
    THEN [entries |-> view, generator |-> gen, timer |-> loading_timer, notes |-> <<>>, done |-> FALSE]
    ELSE IF access[gen.dir] # "ok"
    THEN [entries |-> <<>>, generator |-> NoGenerator, timer |-> FALSE,
          notes |-> <<Note("loading_complete", -1)>>, done |-> TRUE]
    ELSE LET names == Pending(gen)
             k     == Min(batch_size, Len(names))
             new   == [i \in 1..k |-> FileEntry(Path(gen.dir, names[i]))]
             ins   == insert_sorted_entries(view, new)
         IN IF Len(names) < batch_size
            THEN [entries |-> ins.entries, generator |-> NoGenerator, timer |-> FALSE,
                  notes |-> ins.notes \o <<Note("loading_complete", -1)>>, done |-> TRUE]
            ELSE [entries |-> ins.entries,
                  generator |-> [gen EXCEPT !.started = TRUE,
                                            !.names = SubSeq(names, k + 1, Len(names))],
                  timer |-> loading_timer, notes |-> ins.notes, done |-> FALSE]

\* FileListModel._load_next_batch: what one tick of the loading timer leaves
\* [entries, generator, timer, notes, done]
load_next_batch(view, gen) ==
    IF ~gen.live
    THEN [entries |-> view, generator |-> gen, timer |-> loading_timer, notes |-> <<>>, done |-> FALSE]
    ELSE IF access[gen.dir] # "ok"
    THEN \* except Exception: _cancel_loading(), loading_complete
         [entries |-> view, generator |-> NoGenerator, timer |-> FALSE,
          notes |-> <<Note("loading_complete", -1)>>, done |-> TRUE]
    ELSE LET names == Pending(gen)
             k     == Min(batch_size, Len(names))
             new   == [i \in 1..k |-> FileEntry(Path(gen.dir, names[i]))]
             ins   == insert_sorted_entries(view, new)
         IN IF Len(names) < batch_size
            THEN \* StopIteration inside the loop: insert, then _finish_loading
                 [entries |-> ins.entries, generator |-> NoGenerator, timer |-> FALSE,
                  notes |-> ins.notes \o <<Note("loading_complete", -1)>>, done |-> TRUE]
            ELSE [entries |-> ins.entries,
                  generator |-> [gen EXCEPT !.started = TRUE,
                                            !.names = SubSeq(names, k + 1, Len(names))],
                  timer |-> loading_timer, notes |-> ins.notes, done |-> FALSE]

----------------------------------------------------------------------------
(* FileSystemWatcher *)

\* a signal emitted by the watcher; watch records the directory of the
\* subscription whose observer thread emitted it (the signal does not carry it)
Signal(sig, p, q) == [sig |-> sig, path |-> p, to |-> q, watch |-> watched_path]

\* a native watchdog event; has_dest is hasattr(event, 'dest_path') and
\* dest_path is <<>> for the empty string
Event(type, src, is_directory, has_dest, dest) ==
    [event_type |-> type, src_path |-> src, is_directory |-> is_directory,
     has_dest |-> has_dest, dest_path |-> dest]

\* on_created: the watched directory itself is never reported as added
on_created(event) ==
    IF ~event.is_directory \/ event.src_path # watched_path
    THEN <<Signal("file_added", event.src_path, event.src_path)>>
    ELSE <<>>

on_deleted(event) == <<Signal("file_removed", event.src_path, event.src_path)>>

\* on_modified without its check of is_directory
on_modified_unfiltered(event) ==
    <<Signal("file_modified", event.src_path, event.src_path)>>

on_modified(event) ==
    IF ~event.is_directory
    THEN <<Signal("file_modified", event.src_path, event.src_path)>>
    ELSE <<>>

\* Path(event.dest_path)
PathOf(str) == IF str = <<>> THEN DotPath ELSE str

\* on_moved: `if to_path` tests a Path, which is true unless it is None
on_moved(event) ==
    LET to_path == IF event.has_dest THEN PathOf(event.dest_path) ELSE NonePath
    IN IF to_path # NonePath
       THEN <<Signal("file_moved", event.src_path, to_path)>>
       ELSE <<Signal("file_removed", event.src_path, event.src_path)>>

\* FileSystemEventHandler.dispatch
dispatch(event) ==
    CASE event.event_type = "created"  -> on_created(event)
      [] event.event_type = "deleted"  -> on_deleted(event)
      [] event.event_type = "modified" -> on_modified(event)
      [] event.event_type = "moved"    -> on_moved(event)

RECURSIVE dispatch_all(_)
dispatch_all(events) ==
    IF events = <<>> THEN <<>> ELSE dispatch(events[1]) \o dispatch_all(Tail(events))

\* the watcher's fields, with the number of running observer threads
Watcher(obs, path, running) == [observer |-> obs, watched_path |-> path, running |-> running]

\* stop_watching without its check that there is an observer
stop_watching_unguarded == Watcher("None", NonePath, running_observers - 1)

\* stop_watching: stops and joins the observer, then clears both fields
stop_watching ==
    IF observer # "None"
    THEN Watcher("None", NonePath, running_observers - (IF observer = "alive" THEN 1 ELSE 0))
    ELSE Watcher(observer, watched_path, running_observers)

\* watch_directory from its check of the path on, w being the fields it finds;
\* start_ok says whether Observer(), schedule and start succeed
start_watching(w, d, start_ok) ==
    IF access[d] = "gone"
    THEN [observer |-> w.observer, watched_path |-> w.watched_path,
          running |-> w.running, result |-> FALSE]
    ELSE IF start_ok
    THEN [observer |-> "alive", watched_path |-> d, running |-> w.running + 1, result |-> TRUE]
    ELSE [observer |-> "None", watched_path |-> NonePath, running |-> w.running, result |-> FALSE]

\* is_watching taking an observer that was set for one that is alive
is_watching_requested == observer # "None"

\* is_watching; Observer.is_alive() is true of a thread started and not ended
is_watching == observer # "None" /\ observer = "alive"

\* watch_directory without its stop_watching
watch_directory_no_stop(d, start_ok) ==
    start_watching(Watcher(observer, watched_path, running_observers), d, start_ok)

\* watch_directory whose failure leaves watched_path set
watch_directory_keeps_path(d, start_ok) ==
    LET w == start_watching(stop_watching, d, start_ok)
    IN IF w.result THEN w ELSE [w EXCEPT !.watched_path = d]

\* watch_directory: [observer, watched_path, running, result]
watch_directory(d, start_ok) == start_watching(stop_watching, d, start_ok)

----------------------------------------------------------------------------
(* Initial state: a FilePane just constructed *)

\* QTimer.setInterval(2000) of the validation timer, in ms
validation_interval == 2000

Stopped == [active |-> FALSE, left |-> 0]
\* QTimer.start() on the single-shot timer: (re)starts the full interval
Started == [active |-> TRUE, left |-> validation_interval]

Last(op, p, q, result) == [op |-> op, path |-> p, to |-> q, result |-> result]

\* the stat a child has when the behaviour starts
InitStat(n) == IF n = "A.txt" THEN Stat(2, 1) ELSE Stat(1, 2)

\* the listings of distinct names, in every enumeration order
Listings(max) ==
    {s \in UNION {[1..k -> Names] : k \in 0..max} :
        \A i, j \in 1..Len(s) : i # j => s[i] # s[j]}

\* the pane starts on a directory holding the first names of this listing
StartListing == <<"b.md", "sub", "a.txt", "A.txt">>

InitFs ==
    /\ \E k \in 0..MaxFiles : \E s \in {SubSeq(StartListing, 1, Min(k, Len(StartListing)))} :
          disk = [d \in Dirs |-> IF d = InitialPath
                                 THEN [i \in 1..Len(s) |-> Child(s[i], InitStat(s[i]))]
                                 ELSE <<>>]
    /\ access = [d \in Dirs |-> "ok"]
    /\ fs_ops = 0

\* FileListModel.__init__ has called refresh_streaming; init_ui has called
\* update_status on the empty model
InitModel ==
    /\ current_path = InitialPath
    /\ entries = <<>>
    /\ loading_generator = list_directory_streaming(InitialPath)
    /\ loading_timer = TRUE
    /\ validation_timer = Stopped
    /\ status_label = <<0, 0>>
    /\ sort_key = [column |-> COL_NAME, reverse |-> FALSE]
    /\ signal_queue = <<>>
    /\ emitted = <<>>
    /\ last = Last("init", <<>>, <<>>, TRUE)
    /\ since_event = validation_interval
    /\ user_ops = 0

\* setup_file_watcher has called watch_directory on the current path
Init ==
    /\ InitFs
    /\ InitModel
    /\ \E start_ok \in BOOLEAN :
          /\ observer = IF start_ok THEN "alive" ELSE "None"
          /\ watched_path = IF start_ok THEN InitialPath ELSE NonePath
          /\ running_observers = IF start_ok THEN 1 ELSE 0

----------------------------------------------------------------------------
(* The handlers of the event loop *)

\* the loading timer fires: FileListModel._load_next_batch; loading_complete
\* is connected to FilePane.update_status
LoadNextBatch ==
    /\ loading_timer
    /\ LET r == load_next_batch(entries, loading_generator)
       IN /\ entries' = r.entries
          /\ loading_generator' = r.generator
          /\ loading_timer' = r.timer
          /\ emitted' = r.notes
          /\ status_label' = IF r.done THEN update_status(r.entries) ELSE status_label
          /\ last' = Last("load_next_batch", <<>>, <<>>, r.done)
    /\ UNCHANGED <<fsVars, current_path, watcherVars, signal_queue, validation_timer,
                   sort_key, since_event, fs_ops, user_ops>>

\* FilePane.refresh: refresh_streaming, update_status, directory_changed, then
\* watch_directory (whose stop_watching leaves queued signals in the loop)
\* FilePane.refresh without its closing watch_directory call
PaneRefresh_keeps_watch(op, d, start_ok, result) ==
    /\ entries' = <<>>
    /\ loading_generator' = list_directory_streaming(d)
    /\ loading_timer' = TRUE
    /\ status_label' = update_status(<<>>)
    /\ emitted' = <<Note("reset", -1), Note("directory_changed", -1)>>
    /\ UNCHANGED <<observer, watched_path, running_observers>>
    /\ last' = Last(op, d, <<>>, result)

PaneRefresh(op, d, start_ok, result) ==
    /\ entries' = <<>>
    /\ loading_generator' = list_directory_streaming(d)
    /\ loading_timer' = TRUE
    /\ status_label' = update_status(<<>>)
    /\ emitted' = <<Note("reset", -1), Note("directory_changed", -1)>>
    /\ observer' = watch_directory(d, start_ok).observer
    /\ watched_path' = watch_directory(d, start_ok).watched_path
    /\ running_observers' = watch_directory(d, start_ok).running
    /\ last' = Last(op, d, <<>>, result)

\* a watcher handler that is in scope of the current directory: it applies the
\* outcome of the model operation, updates the status (on_file_modified does
\* not) and restarts the validation timer
\* a handler in scope that never calls update_status
Handled_keeps_status(op, p, q, out, status) ==
    /\ entries' = out.entries
    /\ emitted' = out.notes
    /\ UNCHANGED status_label
    /\ validation_timer' = Started
    /\ since_event' = 0
    /\ last' = Last(op, p, q, out.result)

Handled(op, p, q, out, status) ==
    /\ entries' = out.entries
    /\ emitted' = out.notes
    /\ status_label' = IF status THEN update_status(out.entries) ELSE status_label
    /\ validation_timer' = Started
    /\ since_event' = 0
    /\ last' = Last(op, p, q, out.result)

\* a watcher handler for a path outside the current directory does nothing
Ignored(op, p, q) ==
    /\ emitted' = <<>>
    /\ last' = Last(op, p, q, FALSE)
    /\ UNCHANGED <<entries, status_label, validation_timer, since_event>>

on_file_added(p) ==
    IF path_parent(p) = current_path
    THEN Handled("on_file_added", p, p, add_entry(entries, p), TRUE)
    ELSE Ignored("ignored", p, p)

\* on_file_removed without its check of the parent directory
on_file_removed_unscoped(p) ==
    Handled("on_file_removed", p, p, remove_entry(entries, p), TRUE)

on_file_removed(p) ==
    IF path_parent(p) = current_path
    THEN Handled("on_file_removed", p, p, remove_entry(entries, p), TRUE)
    ELSE Ignored("ignored", p, p)

\* on_file_modified without its validation_timer.start()
on_file_modified_no_restart(p) ==
    IF path_parent(p) = current_path
    THEN /\ entries' = update_entry(entries, p).entries
         /\ emitted' = update_entry(entries, p).notes
         /\ last' = Last("on_file_modified", p, p, update_entry(entries, p).result)
         /\ UNCHANGED <<status_label, validation_timer, since_event>>
    ELSE Ignored("ignored", p, p)

on_file_modified(p) ==
    IF path_parent(p) = current_path
    THEN Handled("on_file_modified", p, p, update_entry(entries, p), FALSE)
    ELSE Ignored("ignored", p, p)

\* on_file_moved handling the rename inside the directory only
on_file_moved_rename_only(from_path, to_path) ==
    IF path_parent(from_path) = current_path /\ path_parent(to_path) = current_path
    THEN Handled("on_file_moved", from_path, to_path, move_entry(entries, from_path, to_path), TRUE)
    ELSE Ignored("ignored", from_path, to_path)

on_file_moved(from_path, to_path) ==
    IF path_parent(from_path) = current_path /\ path_parent(to_path) = current_path
    THEN Handled("on_file_moved", from_path, to_path, move_entry(entries, from_path, to_path), TRUE)
    ELSE IF path_parent(from_path) = current_path
    THEN Handled("on_file_moved", from_path, to_path, remove_entry(entries, from_path), TRUE)
    ELSE IF path_parent(to_path) = current_path
    THEN Handled("on_file_moved", from_path, to_path, add_entry(entries, to_path), TRUE)
    ELSE Ignored("ignored", from_path, to_path)

\* the loop delivers the oldest queued watcher signal to its slot
DeliverSignal ==
    /\ signal_queue # <<>>
    /\ signal_queue' = Tail(signal_queue)
    /\ LET s == Head(signal_queue)
       IN CASE s.sig = "file_added"    -> on_file_added(s.path)
            [] s.sig = "file_removed"  -> on_file_removed(s.path)
            [] s.sig = "file_modified" -> on_file_modified(s.path)
            [] s.sig = "file_moved"    -> on_file_moved(s.path, s.to)
    /\ UNCHANGED <<fsVars, current_path, loading_generator, loading_timer, watcherVars,
                   sort_key, fs_ops, user_ops>>

\* the orders in which `for path in extra` can visit a set
Orders(S) == {s \in [1..Cardinality(S) -> S] : Range(s) = S}

RECURSIVE add_missing(_, _, _)
add_missing(view, actual_entries, missing) ==
    IF actual_entries = <<>> THEN Outcome(view, FALSE, <<>>)
    ELSE LET step == IF actual_entries[1].path \in missing
                     THEN add_entry(view, actual_entries[1].path)
                     ELSE Outcome(view, FALSE, <<>>)
             rest == add_missing(step.entries, Tail(actual_entries), missing)
         IN Outcome(rest.entries, step.result \/ rest.result, step.notes \o rest.notes)

RECURSIVE remove_extra(_, _)
remove_extra(view, order) ==
    IF order = <<>> THEN Outcome(view, FALSE, <<>>)
    ELSE LET step == remove_entry(view, order[1])
             rest == remove_extra(step.entries, Tail(order))
         IN Outcome(rest.entries, step.result \/ rest.result, step.notes \o rest.notes)

Paths(view) == {view[i].path : i \in 1..Len(view)}

\* the try block of _background_validation once the listing has succeeded;
\* the result is `missing or extra`
apply_corrections(op) ==
    LET listing == list_directory(current_path)
        actual_paths  == Paths(listing.entries)
        current_paths == Paths(entries)
        missing == actual_paths \ current_paths
        extra   == current_paths \ actual_paths
    IN \E order \in Orders(extra) :
          LET added   == add_missing(entries, listing.entries, missing)
              removed == remove_extra(added.entries, order)
          IN /\ entries' = removed.entries
             /\ emitted' = added.notes \o removed.notes
             /\ status_label' = IF missing # {} \/ extra # {}
                                THEN update_status(removed.entries)
                                ELSE status_label
             /\ last' = Last(op, current_path, <<>>, missing # {} \/ extra # {})
             /\ UNCHANGED <<loading_generator, loading_timer, watcherVars>>

\* _background_validation whose except branch only logs the failure
background_validation_only_logs(op, start_ok) ==
    IF list_directory(current_path).ok
    THEN apply_corrections(op)
    ELSE /\ emitted' = <<>>
         /\ last' = Last("validation_failed", current_path, <<>>, FALSE)
         /\ UNCHANGED <<entries, status_label, loading_generator, loading_timer, watcherVars>>

\* FilePane._background_validation
background_validation(op, start_ok) ==
    IF list_directory(current_path).ok
    THEN apply_corrections(op)
    ELSE \* except Exception: self.refresh()
         PaneRefresh("validation_failed", current_path, start_ok, FALSE)

\* the validation timer fires (single shot) once its interval has run out
ValidationTimeout ==
    /\ validation_timer.active
    /\ validation_timer.left = 0
    /\ validation_timer' = Stopped
    /\ \E start_ok \in BOOLEAN : background_validation("validation", start_ok)
    /\ UNCHANGED <<fsVars, current_path, signal_queue, sort_key, since_event, fs_ops, user_ops>>

\* time passes
Tick ==
    /\ validation_timer' =
          IF validation_timer.active
          THEN [validation_timer EXCEPT !.left = IF @ > TickMs THEN @ - TickMs ELSE 0]
          ELSE validation_timer
    /\ since_event' = Min(validation_interval, since_event + TickMs)
    /\ UNCHANGED <<fsVars, current_path, modelVars, watcherVars, signal_queue, status_label,
                   sort_key, emitted, last, fs_ops, user_ops>>

----------------------------------------------------------------------------
(* The user *)

\* F5 / MainWindow.refresh_active_pane: FilePane.refresh
UserRefresh ==
    /\ user_ops < MaxUserOps
    /\ user_ops' = user_ops + 1
    /\ \E start_ok \in BOOLEAN : PaneRefresh("refresh", current_path, start_ok, TRUE)
    /\ UNCHANGED <<fsVars, current_path, signal_queue, validation_timer, sort_key,
                   since_event, fs_ops>>

\* FileSystemBackend.change_directory: exists() and is_dir()
change_directory(d) == access[d] # "gone"

\* on_path_entered / navigate_to: change_directory, and refresh if it succeeded
UserNavigate(d) ==
    /\ user_ops < MaxUserOps
    /\ user_ops' = user_ops + 1
    /\ change_directory(d)
    /\ current_path' = d
    /\ \E start_ok \in BOOLEAN : PaneRefresh("navigate", d, start_ok, TRUE)
    /\ UNCHANGED <<fsVars, signal_queue, validation_timer, sort_key, since_event, fs_ops>>

----------------------------------------------------------------------------
(* The filesystem and the observer thread *)

\* the queues the loop can be left with after the native events of a change
\* in directory d: the observer reports them only while it is alive and
\* watches d, and a notification can be lost
Queued(d, events) ==
    {signal_queue} \cup
    (IF observer = "alive" /\ watched_path = d
     THEN {signal_queue \o dispatch_all(events)}
     ELSE {})

NoDest == <<>>
DirModified(d) == Event("modified", d, TRUE, FALSE, NoDest)

IndexOfName(d, n) == CHOOSE i \in 1..Len(disk[d]) : disk[d][i].name = n
HasName(d, n) == \E i \in 1..Len(disk[d]) : disk[d][i].name = n

\* a change of the filesystem runs no handler of the loop
FsStep ==
    /\ fs_ops < MaxFsOps
    /\ fs_ops' = fs_ops + 1
    /\ emitted' = <<>>
    /\ last' = Last("fs", <<>>, <<>>, TRUE)
    /\ UNCHANGED <<current_path, modelVars, watcherVars, validation_timer, status_label,
                   sort_key, since_event, user_ops>>

\* the new child is enumerated first or last
FsCreate(d, n, st, pos) ==
    /\ access[d] = "ok"
    /\ ~HasName(d, n)
    /\ Len(disk[d]) < MaxFiles
    /\ pos \in {0, Len(disk[d])}
    /\ disk' = [disk EXCEPT ![d] = InsertAt(@, pos, Child(n, st))]
    /\ signal_queue' \in Queued(d, <<Event("created", Path(d, n), n \in DirNames, FALSE, NoDest),
                                     DirModified(d)>>)
    /\ FsStep
    /\ UNCHANGED access

FsDelete(d, n) ==
    /\ access[d] = "ok"
    /\ HasName(d, n)
    /\ disk' = [disk EXCEPT ![d] = PopAt(@, IndexOfName(d, n) - 1)]
    /\ signal_queue' \in Queued(d, <<Event("deleted", Path(d, n), n \in DirNames, FALSE, NoDest),
                                     DirModified(d)>>)
    /\ FsStep
    /\ UNCHANGED access

FsModify(d, n, st) ==
    /\ access[d] = "ok"
    /\ HasName(d, n)
    /\ disk[d][IndexOfName(d, n)].st # st
    /\ disk' = [disk EXCEPT ![d][IndexOfName(d, n)].st = st]
    /\ signal_queue' \in Queued(d, <<Event("modified", Path(d, n), n \in DirNames, FALSE, NoDest)>>)
    /\ FsStep
    /\ UNCHANGED access

\* rename inside d; an existing child of the new name is replaced
FsRename(d, n, n2) ==
    /\ access[d] = "ok"
    /\ HasName(d, n)
    /\ n # n2
    /\ (n \in DirNames) = (n2 \in DirNames)
    /\ LET without == IF HasName(d, n2) THEN PopAt(disk[d], IndexOfName(d, n2) - 1) ELSE disk[d]
           i == CHOOSE j \in 1..Len(without) : without[j].name = n
       IN disk' = [disk EXCEPT ![d] = [without EXCEPT ![i].name = n2]]
    /\ signal_queue' \in Queued(d, <<Event("moved", Path(d, n), n \in DirNames, TRUE, Path(d, n2)),
                                     DirModified(d)>>)
    /\ FsStep
    /\ UNCHANGED access

\* move from d to d2; the observer of either side reports what it saw of it:
\* the whole move, a move without or with an empty destination or a deletion
\* on the source side, the whole move or a creation on the destination side
FsMove(d, n, d2) ==
    /\ access[d] = "ok" /\ access[d2] = "ok"
    /\ d # d2
    /\ HasName(d, n)
    /\ ~HasName(d2, n)
    /\ Len(disk[d2]) < MaxFiles
    /\ disk' = [disk EXCEPT ![d]  = PopAt(@, IndexOfName(d, n) - 1),
                            ![d2] = Append(@, disk[d][IndexOfName(d, n)])]
    /\ \E e \in {Event("moved", Path(d, n), n \in DirNames, TRUE, Path(d2, n)),
                 Event("moved", Path(d, n), n \in DirNames, FALSE, NoDest),
                 Event("moved", Path(d, n), n \in DirNames, TRUE, <<>>),
                 Event("deleted", Path(d, n), n \in DirNames, FALSE, NoDest),
                 Event("created", Path(d2, n), n \in DirNames, FALSE, NoDest)} :
          /\ e.event_type = "created" => watched_path = d2
          /\ e.event_type = "deleted" \/ ~e.has_dest \/ e.dest_path = <<>> => watched_path # d2
          /\ signal_queue' \in Queued(watched_path, <<e>>)
    /\ FsStep
    /\ UNCHANGED access

\* the directory loses or regains its permissions, or is removed for good
FsSetAccess(d, a) ==
    /\ access[d] = IF a = "ok" THEN "denied" ELSE "ok"
    /\ access' = [access EXCEPT ![d] = a]
    /\ disk' = IF a = "gone" THEN [disk EXCEPT ![d] = <<>>] ELSE disk
    /\ UNCHANGED signal_queue
    /\ FsStep

\* the environment creates, deletes, modifies and renames children of the
\* initial directory, moves children between the directories, and changes
\* the access to either directory
Fs ==
    \/ \E n \in Names, pos \in 0..MaxFiles : FsCreate(InitialPath, n, InitStat(n), pos)
    \/ \E n \in Names : FsDelete(InitialPath, n)
    \/ \E n \in Names, st \in Stats : FsModify(InitialPath, n, st)
    \/ \E n, n2 \in Names : FsRename(InitialPath, n, n2)
    \/ \E d, d2 \in Dirs, n \in Names : FsMove(d, n, d2)
    \/ \E d \in Dirs, a \in {"ok", "denied", "gone"} : FsSetAccess(d, a)

----------------------------------------------------------------------------
(* The pane in its event loop *)

Next ==
    \/ LoadNextBatch
    \/ DeliverSignal
    \/ ValidationTimeout
    \/ Tick
    \/ UserRefresh
    \/ \E d \in Dirs : UserNavigate(d)
    \/ Fs

Spec == Init /\ [][Next]_vars

\* a reconciliation on demand: _background_validation called directly
CallValidation ==
    /\ user_ops < MaxUserOps
    /\ user_ops' = user_ops + 1
    /\ \E start_ok \in BOOLEAN : background_validation("validation", start_ok)
    /\ UNCHANGED <<fsVars, current_path, signal_queue, validation_timer, sort_key,
                   since_event, fs_ops>>

SpecOnDemand == Init /\ [][Next \/ CallValidation]_vars

\* a click on a column header of the table view: FileListModel.sort
UserSort(column, reverse) ==
    /\ user_ops < MaxUserOps
    /\ user_ops' = user_ops + 1
    /\ entries' = sort(entries, column, reverse).entries
    /\ emitted' = sort(entries, column, reverse).notes
    /\ sort_key' = [column |-> column, reverse |-> reverse]
    /\ last' = Last("sort", <<>>, <<>>, TRUE)
    /\ UNCHANGED <<fsVars, current_path, loading_generator, loading_timer, watcherVars,
                   signal_queue, validation_timer, status_label, since_event, fs_ops>>

\* the pane under a user who sorts the view, in a directory where children
\* are created and modified
NextSorting ==
    \/ LoadNextBatch
    \/ DeliverSignal
    \/ ValidationTimeout
    \/ Tick
    \/ \E column \in Columns, reverse \in BOOLEAN : UserSort(column, reverse)
    \/ \E n \in Names, pos \in 0..MaxFiles : FsCreate(InitialPath, n, InitStat(n), pos)
    \/ \E n \in Names, st \in Stats : FsModify(InitialPath, n, st)

SpecSorting == Init /\ [][NextSorting]_vars

----------------------------------------------------------------------------
(* The FileListModel driven by direct calls, on a filesystem at rest whose *)
(* directory may be unreadable                                             *)

\* most direct calls in one behaviour
MaxCalls == 2

OtherDir == <<"o">>
\* the paths the calls are made with
CallPaths == {Path(InitialPath, n) : n \in Names} \cup {Path(OtherDir, "a.txt")}

InitCalls ==
    /\ \E s \in Listings(MaxFiles) :
          disk = [d \in Dirs |-> IF d = InitialPath
                                 THEN [i \in 1..Len(s) |-> Child(s[i], InitStat(s[i]))]
                                 ELSE <<>>]
    /\ \E a \in {"ok", "denied"} :
          access = [d \in Dirs |-> IF d = InitialPath THEN a ELSE "ok"]
    /\ fs_ops = 0
    /\ InitModel
    /\ observer = "None"
    /\ watched_path = NonePath
    /\ running_observers = 0

\* a call of an operation of the model that returns an Outcome
Call(op, p, q, out) ==
    /\ user_ops < MaxCalls
    /\ user_ops' = user_ops + 1
    /\ entries' = out.entries
    /\ emitted' = out.notes
    /\ last' = Last(op, p, q, out.result)
    /\ UNCHANGED <<fsVars, current_path, loading_generator, loading_timer, watcherVars,
                   signal_queue, validation_timer, status_label, since_event, fs_ops>>

CallAddEntry(p) == Call("add_entry", p, p, add_entry(entries, p)) /\ UNCHANGED sort_key

CallRemoveEntry(p) == Call("remove_entry", p, p, remove_entry(entries, p)) /\ UNCHANGED sort_key

CallUpdateEntry(p) == Call("update_entry", p, p, update_entry(entries, p)) /\ UNCHANGED sort_key

CallMoveEntry(p, q) == Call("move_entry", p, q, move_entry(entries, p, q)) /\ UNCHANGED sort_key

CallSort(column, reverse) ==
    /\ Call("sort", <<>>, <<>>, sort(entries, column, reverse))
    /\ sort_key' = [column |-> column, reverse |-> reverse]

\* FileListModel.refresh: the full listing, or [] on PermissionError
refresh(view) ==
    Outcome(IF list_directory(current_path).ok THEN list_directory(current_path).entries ELSE <<>>,
            list_directory(current_path).ok, <<Note("reset", -1)>>)

CallRefresh == Call("refresh", current_path, <<>>, refresh(entries)) /\ UNCHANGED sort_key

\* FileListModel.refresh_streaming: _cancel_loading, reset to [], new generator
CallRefreshStreaming ==
    /\ user_ops < MaxCalls
    /\ user_ops' = user_ops + 1
    /\ entries' = <<>>
    /\ loading_generator' = list_directory_streaming(current_path)
    /\ loading_timer' = TRUE
    /\ emitted' = <<Note("reset", -1)>>
    /\ last' = Last("refresh_streaming", current_path, <<>>, TRUE)
    /\ UNCHANGED <<fsVars, current_path, watcherVars, signal_queue, validation_timer,
                   status_label, sort_key, since_event, fs_ops>>

NextCalls ==
    \/ LoadNextBatch
    \/ \E p \in CallPaths : CallAddEntry(p)
    \/ \E p \in CallPaths : CallRemoveEntry(p)
    \/ \E p \in CallPaths : CallUpdateEntry(p)
    \/ \E p, q \in CallPaths : CallMoveEntry(p, q)
    \/ \E column \in Columns, reverse \in BOOLEAN : CallSort(column, reverse)
    \/ CallRefresh
    \/ CallRefreshStreaming

SpecCalls == InitCalls /\ [][NextCalls]_vars

----------------------------------------------------------------------------
(* The streaming population of the FileListModel: refresh requests and the *)
(* loading timer, which the loop runs whenever it is idle, over a          *)
(* directory that changes and can become unreadable                        *)

NextLoading ==
    \/ LoadNextBatch
    \/ CallRefreshStreaming
    \/ CallRefresh
    \/ \E n \in Names, pos \in 0..MaxFiles : FsCreate(InitialPath, n, InitStat(n), pos)
    \/ \E n \in Names : FsDelete(InitialPath, n)
    \/ \E a \in {"ok", "denied", "gone"} : FsSetAccess(InitialPath, a)

\* a QTimer of interval 0 fires whenever the loop has nothing else to run:
\* weak fairness of LoadNextBatch, written out with the condition that
\* enables it (the timer is set; a tick always changes the state)
LoadingTimerFair == []<>(~loading_timer) \/ []<><<LoadNextBatch>>_vars

SpecLoading == InitCalls /\ [][NextLoading]_vars /\ LoadingTimerFair

----------------------------------------------------------------------------
(* The full enumeration of a directory, called through                     *)
(* FileListModel.refresh, over directories that hold children whose entry  *)
(* cannot be constructed and that lose and regain their permissions        *)

\* every listing of the directory, each child reachable or not
InitListing ==
    /\ \E s \in Listings(MaxFiles) : \E broken \in SUBSET Range(s) :
          disk = [d \in Dirs |->
                    IF d = InitialPath
                    THEN [i \in 1..Len(s) |->
                            Child(s[i], IF s[i] \in broken THEN StatError ELSE InitStat(s[i]))]
                    ELSE <<>>]
    /\ access \in {[d \in Dirs |-> IF d = InitialPath THEN a ELSE "ok"] :
                      a \in {"ok", "denied", "gone"}}
    /\ fs_ops = 0
    /\ InitModel
    /\ observer = "None"
    /\ watched_path = NonePath
    /\ running_observers = 0

NextListing ==
    \/ CallRefresh
    \/ \E a \in {"ok", "denied"} : FsSetAccess(InitialPath, a)

SpecListing == InitListing /\ [][NextListing]_vars

----------------------------------------------------------------------------
(* The FileSystemWatcher driven by direct calls and native events, under a *)
(* pane that can be refreshed; the filesystem is at rest                   *)

\* a pane constructed on a directory that may be missing, its watcher not
\* set up yet or, on a directory that exists, watching it
InitWatcher ==
    /\ disk = [d \in Dirs |-> IF d = InitialPath
                              THEN [i \in 1..Min(MaxFiles, Len(StartListing)) |->
                                      Child(StartListing[i], InitStat(StartListing[i]))]
                              ELSE <<>>]
    /\ access \in [Dirs -> {"ok", "gone"}]
    /\ fs_ops = 0
    /\ InitModel
    /\ \E set_up \in {FALSE, access[InitialPath] = "ok"} :
          /\ observer = IF set_up THEN "alive" ELSE "None"
          /\ watched_path = IF set_up THEN InitialPath ELSE NonePath
          /\ running_observers = IF set_up THEN 1 ELSE 0

\* a call of the watcher leaves the pane and its model alone
WatcherCall(op, p, result) ==
    /\ user_ops < MaxCalls
    /\ user_ops' = user_ops + 1
    /\ emitted' = <<>>
    /\ last' = Last(op, p, <<>>, result)
    /\ UNCHANGED <<fsVars, current_path, modelVars, signal_queue, validation_timer,
                   status_label, sort_key, since_event, fs_ops>>

CallWatchDirectory(d, start_ok) ==
    /\ observer' = watch_directory(d, start_ok).observer
    /\ watched_path' = watch_directory(d, start_ok).watched_path
    /\ running_observers' = watch_directory(d, start_ok).running
    /\ WatcherCall("watch_directory", d, watch_directory(d, start_ok).result)

\* stop_watching called on the watcher; last keeps the path it logs as
\* stopped and whether there was an observer to stop
CallStopWatching ==
    /\ observer' = stop_watching.observer
    /\ watched_path' = stop_watching.watched_path
    /\ running_observers' = stop_watching.running
    /\ WatcherCall("stop_watching", watched_path, observer # "None")

CallIsWatching ==
    /\ WatcherCall("is_watching", watched_path, is_watching)
    /\ UNCHANGED watcherVars

\* the observer thread ends on its own (its inotify instance is closed, its
\* run loop raises): the watcher keeps the observer and the path
ObserverDies ==
    /\ observer = "alive"
    /\ observer' = "dead"
    /\ running_observers' = running_observers - 1
    /\ emitted' = <<>>
    /\ last' = Last("observer_died", watched_path, <<>>, TRUE)
    /\ UNCHANGED <<fsVars, current_path, modelVars, watched_path, signal_queue,
                   validation_timer, status_label, sort_key, since_event, fs_ops, user_ops>>

\* the names the native events are about
EventNames == {"sub", "a.txt"}

\* the native events an observer of directory w can hand to the handler
NativeEvents(w) ==
    {Event(t, Path(w, n), n \in DirNames, FALSE, NoDest) :
        t \in {"created", "deleted", "modified"}, n \in EventNames}
    \cup {Event(t, w, TRUE, FALSE, NoDest) : t \in {"created", "modified"}}
    \cup {Event("moved", Path(w, n), n \in DirNames, FALSE, NoDest) : n \in EventNames}
    \cup {Event("moved", Path(w, n), n \in DirNames, TRUE, dest) :
            n \in EventNames, dest \in {<<>>, Path(w, "b.md")}}
    \cup {Event("moved", Path(w, n), n \in DirNames, TRUE, Path(d, n)) :
            n \in EventNames, d \in Dirs \ {w}}

\* the observer thread calls the handler with a native event
NativeEvent(e) ==
    /\ observer = "alive"
    /\ fs_ops < MaxFsOps
    /\ fs_ops' = fs_ops + 1
    /\ signal_queue' = signal_queue \o dispatch(e)
    /\ emitted' = <<>>
    /\ last' = Last(e.event_type, e.src_path, IF e.has_dest THEN e.dest_path ELSE NonePath,
                    e.has_dest)
    /\ UNCHANGED <<fsVars, current_path, modelVars, watcherVars, validation_timer,
                   status_label, sort_key, since_event, user_ops>>

\* FilePane.refresh called on the pane
CallPaneRefresh ==
    /\ user_ops < MaxCalls
    /\ user_ops' = user_ops + 1
    /\ \E start_ok \in BOOLEAN : PaneRefresh("refresh", current_path, start_ok, TRUE)
    /\ UNCHANGED <<fsVars, current_path, signal_queue, validation_timer, sort_key,
                   since_event, fs_ops>>

\* the observer thread reports some event of the watched directory
ObserverThread == \E e \in NativeEvents(watched_path) : NativeEvent(e)

NextWatcher ==
    \/ \E d \in Dirs, start_ok \in BOOLEAN : CallWatchDirectory(d, start_ok)
    \/ CallStopWatching
    \/ CallIsWatching
    \/ ObserverThread
    \/ ObserverDies
    \/ CallPaneRefresh
    \/ LoadNextBatch

SpecWatcher == InitWatcher /\ [][NextWatcher]_vars

----------------------------------------------------------------------------
(* Properties of the FileListModel under direct calls (SpecCalls) *)

\* the list is in the order list.sort(key, reverse) of FileListModel.sort
\* accepts as sorted: no neighbour is out of order under the key tuple
SortedUnder(view, column, reverse) ==
    \A i \in 1..(Len(view) - 1) :
        IF reverse
        THEN ~KeyLt(sort_lambda(view[i], column), sort_lambda(view[i + 1], column))
        ELSE ~KeyLt(sort_lambda(view[i + 1], column), sort_lambda(view[i], column))

DiskPaths(d) == {Path(d, ChildrenOf(d)[i].name) : i \in 1..Len(ChildrenOf(d))}

PathSeq(view) == [i \in 1..Len(view) |-> view[i].path]
Count(view, p) == Cardinality({i \in 1..Len(view) : view[i].path = p})

\* the step is a direct call of the operation op
IsCall(op) == user_ops' = user_ops + 1 /\ last'.op = op

\* the list has its directories first and, within each kind, is in the order
\* of the key in the direction asked for
SortedDirsFirst(view, column, reverse) ==
    \A i \in 1..(Len(view) - 1) :
        /\ view[i].is_dir \/ ~view[i + 1].is_dir
        /\ view[i].is_dir = view[i + 1].is_dir =>
              IF reverse
              THEN sort_lambda(view[i], column)[2] >= sort_lambda(view[i + 1], column)[2]
              ELSE sort_lambda(view[i], column)[2] <= sort_lambda(view[i + 1], column)[2]

\* C1: after every add_entry, remove_entry and move_entry, whatever sort call
\* came before, the view is sorted under the key and direction of that sort
\* (the default key when there was none).  Either order a reader can mean by
\* it is accepted: the one sort itself produces, or the one with the
\* directories first in both directions.
C1_SortedAfterEveryOperation ==
    last.op \in {"add_entry", "remove_entry", "move_entry"}
        => \/ SortedUnder(entries, sort_key.column, sort_key.reverse)
           \/ SortedDirsFirst(entries, sort_key.column, sort_key.reverse)

\* C4: a streaming population run to completion from the constructor, with
\* nothing but loading ticks, leaves the same sequence of paths as the full
\* listing of the same directory.
C4_StreamingEqualsFull ==
    (user_ops = 0 /\ last.op = "load_next_batch" /\ last.result)
        => PathSeq(entries) = PathSeq(list_directory(current_path).entries)

\* C7: add_entry with a path that is already in the view returns False,
\* leaves the view as it was and emits nothing; an add_entry that returns
\* True leaves exactly one entry with its path.
C7_AddEntryIdempotent ==
    [][/\ (IsCall("add_entry") /\ last'.path \in Paths(entries))
            => (entries' = entries /\ last'.result = FALSE /\ emitted' = <<>>)
       /\ (IsCall("add_entry") /\ last'.result)
            => Count(entries', last'.path) = 1]_vars

C7_Witness ==
    /\ last.op = "add_entry"
    /\ ~last.result
    /\ Count(entries, last.path) = 1

\* C8: remove_entry with a path that is not in the view returns False, leaves
\* the sequence as it was and emits no notification.
C8_RemoveAbsentIsNoop ==
    [][(IsCall("remove_entry") /\ last'.path \notin Paths(entries))
          => (last'.result = FALSE /\ entries' = entries /\ emitted' = <<>>)]_vars

C8_Witness ==
    /\ last.op = "remove_entry"
    /\ ~last.result
    /\ entries # <<>>

\* C9: move_entry(from, to) with from not in the view leaves the view and
\* returns the value that add_entry(to) leaves and returns on the same view.
C9_MoveOfAbsentIsAdd ==
    [][(IsCall("move_entry") /\ last'.path \notin Paths(entries))
          => /\ entries' = add_entry(entries, last'.to).entries
             /\ last'.result = add_entry(entries, last'.to).result
             /\ emitted' = add_entry(entries, last'.to).notes]_vars

\* a move that only inserted: its source was not in the view
C9_Witness ==
    /\ last.op = "move_entry"
    /\ last.result
    /\ Len(emitted) = 1
    /\ emitted[1].kind = "insert"
    /\ Len(entries) > 1

\* C14: every refresh request cancels the population in flight: after
\* refresh no generator and no loading timer are left, after
\* refresh_streaming only the new generator and its timer are, and a loading
\* tick that follows a refresh inserts nothing into the refreshed view.
C14_LastRequestWins ==
    [][/\ IsCall("refresh") => (~loading_timer' /\ loading_generator' = NoGenerator)
       /\ IsCall("refresh_streaming")
             => (/\ loading_timer'
                 /\ loading_generator' = list_directory_streaming(current_path)
                 /\ entries' = <<>>)
       /\ (last.op = "refresh" /\ last'.op = "load_next_batch") => entries' = entries]_vars

\* C19: after sort, with any column and either order, every directory of
\* the view comes before every file.
C19_DirectoriesFirstAfterSort ==
    last.op = "sort"
        => \A i, j \in 1..Len(entries) : (entries[i].is_dir /\ ~entries[j].is_dir) => i < j

\* C20: after sort, two neighbours of the same kind whose values under the
\* sorted column are equal are in case-insensitive name order (either
\* direction of it is accepted after a descending sort).
C20_TiesInNameOrder ==
    last.op = "sort"
        => \A i \in 1..(Len(entries) - 1) :
              (sort_lambda(entries[i], sort_key.column) = sort_lambda(entries[i + 1], sort_key.column))
                 => \/ StrRank(lower(entries[i].name)) <= StrRank(lower(entries[i + 1].name))
                    \/ /\ sort_key.reverse
                       /\ StrRank(lower(entries[i].name)) >= StrRank(lower(entries[i + 1].name))

\* C25: move_entry(from, to) with both paths in the same directory and from
\* in the view leaves the view that remove_entry(from) followed by
\* add_entry(to) leaves, whether or not an entry of path to is in the view.
C25_RenameIsRemoveThenInsert ==
    [][(/\ IsCall("move_entry")
        /\ path_parent(last'.path) = path_parent(last'.to)
        /\ last'.path \in Paths(entries))
          => entries' = add_entry(remove_entry(entries, last'.path).entries, last'.to).entries]_vars

\* C21: FileListModel.refresh leaves exactly the children of the current
\* directory, each once, sorted under the key and direction of the last sort
\* call (the default key when there was none; either order a reader can mean
\* by sorted is accepted), and emits one reset; when the directory cannot be
\* listed it leaves the view empty.
C21_RefreshReplaces ==
    last.op = "refresh"
        => IF access[current_path] = "ok"
           THEN /\ Paths(entries) = DiskPaths(current_path)
                /\ Len(entries) = Cardinality(DiskPaths(current_path))
                /\ \/ SortedUnder(entries, sort_key.column, sort_key.reverse)
                   \/ SortedDirsFirst(entries, sort_key.column, sort_key.reverse)
                /\ emitted = <<Note("reset", -1)>>
           ELSE entries = <<>>

\* C26: update_entry with a path of the view returns True, leaves every
\* entry at its index, changes nothing but the cached stat of the first entry
\* with the path, which it clears, and emits one update notification with
\* that entry's index; with a path that is not in the view it returns False,
\* leaves the view as it is and emits nothing.
C26_UpdateKeepsOrder ==
    [][IsCall("update_entry")
          => LET i == index_of(entries, last'.path)
             IN IF i >= 0
                THEN /\ last'.result
                     /\ PathSeq(entries') = PathSeq(entries)
                     /\ \A j \in 1..Len(entries) : j # i + 1 => entries'[j] = entries[j]
                     /\ entries'[i + 1] = [entries[i + 1] EXCEPT !.stat_cache = <<>>]
                     /\ emitted' = <<Note("update", i)>>
                ELSE /\ ~last'.result
                     /\ entries' = entries
                     /\ emitted' = <<>>]_vars

\* the second entry of a view sorted by size or time has had its cached stat
\* cleared, the first one keeps its own
C26_Witness ==
    /\ last.op = "update_entry"
    /\ last.result
    /\ sort_key.column \in {COL_SIZE, COL_MODIFIED}
    /\ Len(entries) = 2
    /\ entries[2].path = last.path
    /\ entries[2].stat_cache = <<>>
    /\ entries[1].stat_cache # <<>>
    /\ emitted = <<Note("update", 1)>>

\* an observer holding the paths obs that applies the notifications in
\* order, reading an inserted row and a reset list from the model, can end
\* with the paths final that the model ends with
RECURSIVE Replayable(_, _, _)
Replayable(obs, notes, final) ==
    IF notes = <<>> THEN obs = final
    ELSE CASE notes[1].kind = "insert" ->
                  /\ notes[1].index \in 0..Len(obs)
                  /\ \E x \in Range(final) :
                        Replayable(InsertAt(obs, notes[1].index, x), Tail(notes), final)
           [] notes[1].kind = "remove" ->
                  /\ notes[1].index \in 0..(Len(obs) - 1)
                  /\ Replayable(PopAt(obs, notes[1].index), Tail(notes), final)
           [] notes[1].kind = "reset" -> Replayable(final, Tail(notes), final)
           [] OTHER -> Replayable(obs, Tail(notes), final)

\* C27: in every step, an observer that holds the paths of the view before
\* the step and applies the notifications the step emits, in their order,
\* holds the paths of the view after it; and the index of the insert
\* notification that ends an add_entry or a move_entry is the index the new
\* entry is at.
C27_NotificationsFaithful ==
    [][/\ Replayable(PathSeq(entries), emitted', PathSeq(entries'))
       /\ ((IsCall("add_entry") \/ IsCall("move_entry"))
             /\ emitted' # <<>> /\ emitted'[Len(emitted')].kind = "insert")
             => entries'[emitted'[Len(emitted')].index + 1].path = last'.to]_vars

\* a move has announced a removal and an insertion at another index
C27_Witness ==
    /\ last.op = "move_entry"
    /\ Len(emitted) = 2
    /\ emitted[1].kind = "remove"
    /\ emitted[2].kind = "insert"
    /\ emitted[1].index # emitted[2].index
    /\ Len(entries) = 2
    /\ entries[emitted[2].index + 1].path = last.to

----------------------------------------------------------------------------
(* Properties of the pane in its event loop (Spec, SpecOnDemand) *)

\* C2: no two entries of the view share a path.
C2_UniquePaths ==
    \A i, j \in 1..Len(entries) : i # j => entries[i].path # entries[j].path

\* nothing is left for the loop to run: no queued signal, no loading timer
\* and no validation timer
Quiescent == signal_queue = <<>> /\ ~loading_timer /\ ~validation_timer.active

\* C3: with a live watch on the current directory, once the loop has nothing
\* left to run (so that, the filesystem staying as it is, the view stays as
\* it is for ever) the paths of the view are the children of the directory.
C3_QuiescentViewMatchesDisk ==
    (/\ Quiescent
     /\ observer = "alive"
     /\ watched_path = current_path
     /\ access[current_path] = "ok")
        => Paths(entries) = DiskPaths(current_path)

\* the step is the validation timer firing
ValidationFires == validation_timer.active /\ ~validation_timer'.active

\* the step is a run of _background_validation, by the timer or on demand
ValidationRuns ==
    \/ ValidationFires
    \/ user_ops' = user_ops + 1 /\ last'.op \in {"validation", "validation_failed"}

\* C5: after a reconciliation pass whose listing succeeded, the paths of the
\* view are the paths of that listing.
C5_ValidationMatchesListing ==
    [][(ValidationRuns /\ list_directory(current_path).ok)
          => Paths(entries') = Paths(list_directory(current_path).entries)]_vars

\* C6: a reconciliation that runs right after a reconciliation that completed,
\* with no filesystem change and no handler in between, finds nothing missing
\* and nothing extra and leaves the view as it is.
C6_ValidationIdempotent ==
    [][(last.op = "validation" /\ ValidationRuns)
          => (last'.op = "validation" /\ last'.result = FALSE /\ entries' = entries)]_vars

\* the step delivers a watcher signal to a handler that is in scope
HandledStep ==
    /\ signal_queue # <<>>
    /\ signal_queue' = Tail(signal_queue)
    /\ last'.op # "ignored"

\* C10: every handled watcher event restarts the validation timer with its
\* full interval, and nothing else arms it; the timer fires only when a full
\* interval has passed since the last handled event, nothing but its firing
\* stops it, and firing leaves it stopped (single shot), so it fires once
\* per burst; and once a full interval has passed since the last handled
\* event a timer that is still armed is due.
C10_Debounce ==
    [][/\ HandledStep => (validation_timer' = Started /\ since_event' = 0)
       /\ (validation_timer'.active /\ validation_timer'.left > validation_timer.left)
             => HandledStep
       /\ (~validation_timer.active /\ validation_timer'.active) => HandledStep
       /\ ValidationFires => (/\ since_event >= validation_interval
                              /\ validation_timer.left = 0
                              /\ last'.op \in {"validation", "validation_failed"})
       /\ (validation_timer'.active /\ since_event' >= validation_interval)
             => validation_timer'.left = 0]_vars

C10_Witness ==
    /\ last.op = "validation"
    /\ ~validation_timer.active
    /\ since_event >= validation_interval
    /\ entries # <<>>

\* the step delivers the oldest queued watcher signal to its slot
DeliverStep == signal_queue # <<>> /\ signal_queue' = Tail(signal_queue)

C12_OutOfScopeIgnored ==
    [][(/\ DeliverStep
        /\ Head(signal_queue).sig \in {"file_added", "file_removed", "file_modified"}
        /\ path_parent(Head(signal_queue).path) # current_path)
          => /\ entries' = entries
             /\ emitted' = <<>>
             /\ validation_timer' = validation_timer]_vars

\* an out-of-scope signal was dropped while the validation timer was running
\* down, and the timer kept running down
C12_Witness ==
    /\ last.op = "ignored"
    /\ last.path = last.to
    /\ validation_timer.active
    /\ validation_timer.left < validation_interval

\* C16: no signal emitted by the subscription on a directory the pane has
\* left is delivered to the pane: every signal the loop delivers was emitted
\* by a subscription on the current directory (so none of another one can
\* change the view).
C16_NoStaleEvent ==
    [][DeliverStep => Head(signal_queue).watch = current_path]_vars

\* C18: a reconciliation pass whose listing fails ends as a full reset: the
\* view is emptied and a new population of the current directory is started,
\* and the queued signals stay queued for the loop; the population then ends
\* without inserting anything when the directory still cannot be read, and
\* with every child of the directory in the view when it can (the population
\* that reads the directory and completes in one tick).
C18_ValidationFailureFallsBack ==
    [][/\ (ValidationRuns /\ ~list_directory(current_path).ok)
             => (/\ last'.op = "validation_failed"
                 /\ entries' = <<>>
                 /\ loading_timer'
                 /\ loading_generator' = list_directory_streaming(current_path)
                 /\ signal_queue' = signal_queue)
       /\ (last'.op = "load_next_batch" /\ loading_generator.live
             /\ access[loading_generator.dir] # "ok")
             => (entries' = entries /\ ~loading_timer' /\ ~loading_generator'.live)
       /\ (last'.op = "load_next_batch" /\ last'.result /\ loading_generator.live
             /\ ~loading_generator.started /\ access[loading_generator.dir] = "ok")
             => DiskPaths(loading_generator.dir) \subseteq Paths(entries')]_vars

\* the fallback has just run: the view is empty and a population is starting
C18_Witness ==
    /\ last.op = "validation_failed"
    /\ entries = <<>>
    /\ loading_timer
    /\ access[current_path] # "ok"

\* C22: a loading tick that meets an enumeration error leaves every entry of
\* the view where it was (so all that earlier batches inserted stays
\* visible), clears the generator and the loading timer, and emits
\* loading_complete and nothing else, on which the pane updates its status
\* from the entries that are left.
C22_ErrorKeepsInserted ==
    [][(LoadNextBatch /\ loading_generator.live /\ access[loading_generator.dir] # "ok")
          => /\ entries' = entries
             /\ ~loading_timer'
             /\ loading_generator' = NoGenerator
             /\ emitted' = <<Note("loading_complete", -1)>>
             /\ status_label' = update_status(entries)]_vars

\* the error met a population that had inserted a batch already
C22_Witness ==
    /\ last.op = "load_next_batch"
    /\ last.result
    /\ emitted = <<Note("loading_complete", -1)>>
    /\ access[current_path] # "ok"
    /\ ~loading_timer
    /\ Len(entries) = batch_size

\* the entry at 0-based index pos is in order with its neighbours under the
\* key and direction (in either order a reader can mean by sorted)
InPlace(view, pos, column, reverse) ==
    LET around == SubSeq(view, IF pos = 0 THEN 1 ELSE pos, Min(Len(view), pos + 2))
    IN SortedUnder(around, column, reverse) \/ SortedDirsFirst(around, column, reverse)

\* C28: an Added(p) signal delivered while the pane is on p's parent and the
\* view holds no entry of path p inserts one entry of path p and nothing
\* else: the other entries stay, in the order they were in, one insert is
\* announced, and the new entry is in order with its neighbours under the
\* key and direction of the last sort.
C28_AddedGainsOneEntry ==
    [][(/\ DeliverStep
        /\ Head(signal_queue).sig = "file_added"
        /\ path_parent(Head(signal_queue).path) = current_path
        /\ Head(signal_queue).path \notin Paths(entries))
          => \E pos \in 0..Len(entries) :
                /\ Len(entries') = Len(entries) + 1
                /\ entries'[pos + 1].path = Head(signal_queue).path
                /\ entries' = InsertAt(entries, pos, entries'[pos + 1])
                /\ emitted' = <<Note("insert", pos)>>
                /\ InPlace(entries', pos, sort_key.column, sort_key.reverse)]_vars

\* C32: with no sort call (the pane of Spec has none), in every reachable
\* state every directory entry of the view comes before every file entry
\* and, within each kind, the lower-cased names are in ascending order.
C32_DefaultOrderKept ==
    /\ \A i, j \in 1..Len(entries) : (entries[i].is_dir /\ ~entries[j].is_dir) => i < j
    /\ \A i \in 1..(Len(entries) - 1) :
          entries[i].is_dir = entries[i + 1].is_dir
             => StrRank(lower(entries[i].name)) <= StrRank(lower(entries[i + 1].name))

\* a reconciliation pass has corrected a view of a directory and a file
C32_Witness ==
    /\ last.op = "validation"
    /\ last.result
    /\ Len(entries) = 2
    /\ entries[1].is_dir
    /\ ~entries[2].is_dir

\* C33: between handlers the watcher's watched_path is None or the backend's
\* current directory, and the observer is set exactly when watched_path is;
\* a navigation changes both the current directory and the watch in its own
\* step, so the state after it satisfies this too.
C33_WatchFollowsCurrentPath ==
    /\ watched_path \in {NonePath, current_path}
    /\ (observer # "None") <=> (watched_path # NonePath)

\* a navigation to the other directory has moved the watch there
C33_Witness ==
    /\ last.op = "navigate"
    /\ current_path # InitialPath
    /\ watched_path = current_path
    /\ observer = "alive"

\* C34: between handlers, whenever no streaming population is in progress,
\* the status label shows the number of directory entries and the number of
\* file entries that are in the view.
C34_StatusCountsMatchView ==
    ~loading_timer => status_label = update_status(entries)

\* with the population complete, a removal event has left one file in the
\* view, and the status shows no directory and one file
C34_Witness ==
    /\ ~loading_timer
    /\ last.op = "on_file_removed"
    /\ last.result
    /\ Len(entries) = 1
    /\ status_label = <<0, 1>>

----------------------------------------------------------------------------
(* Properties of the FileSystemWatcher (SpecWatcher) *)

\* the step is the observer thread handing a native event to the handler
IsNativeEvent(type) == fs_ops' = fs_ops + 1 /\ last'.op = type

\* C13: a native move event whose destination is unknown (it has no
\* dest_path, or an empty one) makes the watcher emit Removed(from) and
\* nothing else, so no Moved.
C13_UnknownDestinationIsRemoved ==
    [][(IsNativeEvent("moved") /\ (~last'.result \/ last'.to = <<>>))
          => signal_queue' = Append(signal_queue,
                                    Signal("file_removed", last'.path, last'.path))]_vars

\* C15: at most one observer thread is running at any time, and it is the
\* one the watcher holds: watch_directory has stopped and discarded the
\* previous observer before it starts a new one.
C15_AtMostOneSubscription ==
    /\ running_observers <= 1
    /\ running_observers = IF observer = "alive" THEN 1 ELSE 0
    /\ observer = "None" <=> watched_path = NonePath

\* a watch started on one directory after a subscription on another
\* directory had reported an event
C15_Witness ==
    /\ last.op = "watch_directory"
    /\ last.result
    /\ running_observers = 1
    /\ signal_queue # <<>>
    /\ signal_queue[1].watch # watched_path

\* C17: watch_directory returns False when the path does not exist or the
\* monitor cannot be started, and a call that returns False leaves the
\* watcher with no observer, no watched path and no running thread; a
\* refresh that follows a failed watch starts a population all the same, and
\* a population that completes while nothing is watched leaves the view
\* with the children of the directory (empty when the directory is gone).
C17_FailedWatch ==
    [][/\ (IsCall("watch_directory") /\ access[last'.path] = "gone") => ~last'.result
       /\ (IsCall("watch_directory") /\ ~last'.result)
             => (/\ observer' = "None"
                 /\ watched_path' = NonePath
                 /\ running_observers' = 0)
       /\ (last.op = "watch_directory" /\ ~last.result /\ IsCall("refresh"))
             => (/\ entries' = <<>>
                 /\ loading_timer'
                 /\ loading_generator' = list_directory_streaming(current_path))
       /\ (observer = "None" /\ last'.op = "load_next_batch" /\ last'.result)
             => Paths(entries') = DiskPaths(current_path)]_vars

\* a watch that could not start its monitor on an existing directory, after
\* an earlier subscription had reported an event
C17_Witness ==
    /\ last.op = "watch_directory"
    /\ ~last.result
    /\ access[last.path] = "ok"
    /\ observer = "None"
    /\ signal_queue # <<>>

\* C23: stop_watching leaves no observer, no watched path and no running
\* thread; called with no observer it changes nothing of the watcher and
\* emits nothing, and called right after another stop_watching it leaves
\* the state that call left.
C23_StopIdempotent ==
    [][/\ IsCall("stop_watching")
             => (/\ observer' = "None"
                 /\ watched_path' = NonePath
                 /\ running_observers' = 0
                 /\ signal_queue' = signal_queue)
       /\ (IsCall("stop_watching") /\ observer = "None")
             => (UNCHANGED watcherVars /\ ~last'.result)
       /\ (last.op = "stop_watching" /\ IsCall("stop_watching"))
             => UNCHANGED <<watcherVars, signal_queue, modelVars>>]_vars

\* a stop_watching that found no observer, on a watcher whose subscription
\* had reported an event before it was stopped
C23_Witness ==
    /\ last.op = "stop_watching"
    /\ ~last.result
    /\ last.path = NonePath
    /\ observer = "None"
    /\ watched_path = NonePath
    /\ signal_queue # <<>>

\* C24: is_watching returns True exactly when the watcher holds an observer
\* whose thread is running: True right after a watch_directory that returned
\* True, False while there is no observer, right after stop_watching, right
\* after a watch_directory that returned False, and right after the observer
\* thread has ended with the watched path still set; it changes nothing.
C24_IsWatchingIsLiveness ==
    [][IsCall("is_watching")
          => /\ last'.result = (observer # "None" /\ running_observers = 1)
             /\ observer = "None" => ~last'.result
             /\ last.op = "stop_watching" => ~last'.result
             /\ last.op = "watch_directory" => last'.result = last.result
             /\ last.op = "observer_died" => (~last'.result /\ watched_path # NonePath)
             /\ UNCHANGED <<watcherVars, signal_queue, modelVars>>]_vars

\* asked of a watcher whose observer thread has ended and that was never
\* stopped
C24_Witness ==
    /\ last.op = "is_watching"
    /\ ~last.result
    /\ observer = "dead"
    /\ watched_path = last.path
    /\ watched_path # NonePath

----------------------------------------------------------------------------
(* Properties of the streaming population (SpecLoading) *)

\* C29: while the loading timer runs there is a generator for it to pull
\* from; a tick that does not end the population has pulled a whole batch
\* and emits no loading_complete, a tick that ends it, by exhaustion or by
\* an error, clears the generator and the timer and emits loading_complete
\* once, as its last notification; and with the timer given its turns every
\* population ends or is superseded by a refresh_streaming.
C29_PopulationTerminates ==
    /\ [](loading_timer => loading_generator.live)
    /\ [][LoadNextBatch =>
            LET completes == {i \in 1..Len(emitted') : emitted'[i].kind = "loading_complete"}
            IN IF last'.result
               THEN /\ ~loading_timer'
                    /\ loading_generator' = NoGenerator
                    /\ completes = {Len(emitted')}
               ELSE /\ completes = {}
                    /\ loading_generator'.started
                    /\ Len(entries') = Len(entries) + batch_size
                    /\ Len(loading_generator'.names) + batch_size = Len(Pending(loading_generator))]_vars
    /\ (loading_timer ~> (~loading_timer \/ last.op = "refresh_streaming"))

\* a population of more than one tick has ended by exhaustion
C29_Witness ==
    /\ last.op = "load_next_batch"
    /\ last.result
    /\ ~loading_timer
    /\ ~loading_generator.live
    /\ access[current_path] = "ok"
    /\ emitted = <<Note("loading_complete", -1)>>
    /\ Len(entries) = batch_size

----------------------------------------------------------------------------
(* Properties of the full enumeration (SpecListing) *)

\* the paths of the children of d whose entry can be constructed
ReachablePaths(d) ==
    {Path(d, disk[d][i].name) : i \in {j \in 1..Len(disk[d]) : constructible(disk[d][j])}}

\* C31: list_directory, called by refresh, fails exactly when the directory
\* itself cannot be iterated (refresh then leaves the view empty); when it
\* can, the call succeeds whatever its children are and returns every child
\* whose entry can be constructed, each once, and none of the others.
C31_ChildFailureNeverFailsCall ==
    [][IsCall("refresh")
          => /\ last'.result = (access[current_path] = "ok")
             /\ access[current_path] # "ok" => entries' = <<>>
             /\ access[current_path] = "ok"
                   => (/\ Paths(entries') = ReachablePaths(current_path)
                       /\ Len(entries') = Cardinality(ReachablePaths(current_path)))]_vars

\* a listing that succeeded on a directory with one child whose entry could
\* not be constructed, and returned the other one
C31_Witness ==
    /\ last.op = "refresh"
    /\ last.result
    /\ Len(disk[current_path]) = 2
    /\ Len(entries) = 1
    /\ entries[1].path \in DiskPaths(current_path)

====
